---------------------------- MODULE Spec2Model ----------------------------
(***************************************************************************)
(* A model of the OSS object-storage client (src/src/oss.rs,               *)
(* src/src/object.rs, src/src/utils.rs, src/src/errors.rs).                *)
(*                                                                         *)
(* Strings that the code compares, sorts, concatenates or searches are     *)
(* sequences of bytes (Rust's String / &str / &[u8]); tag names of XML     *)
(* events, verbs and error-variant names, which are only tested for        *)
(* equality, are TLA+ strings.                                             *)
(***************************************************************************)
EXTENDS Integers, Sequences, FiniteSets, TLC

-----------------------------------------------------------------------------
(* String literals of the source, as bytes.                                *)
str_amp == <<38>>  \* "&"
str_eq == <<61>>  \* "="
str_dot == <<46>>  \* "."
str_slash == <<47>>  \* "/"
str_qmark == <<63>>  \* "?"
str_space == <<32>>  \* " "
str_colon == <<58>>  \* ":"
str_https == <<104, 116, 116, 112, 115>>  \* "https"
str_https_scheme == <<104, 116, 116, 112, 115, 58, 47, 47>>  \* "https://"
str_http_scheme == <<104, 116, 116, 112, 58, 47, 47>>  \* "http://"
OSS_META_PREFIX == <<120, 45, 111, 115, 115, 45, 109, 101, 116, 97, 45>>  \* "x-oss-meta-"
str_list_type_2 == <<108, 105, 115, 116, 45, 116, 121, 112, 101, 61, 50>>  \* "list-type=2"
str_continuation_token == <<99, 111, 110, 116, 105, 110, 117, 97, 116, 105, 111, 110, 45, 116, 111, 107, 101, 110>>  \* "continuation-token"
str_delimiter == <<100, 101, 108, 105, 109, 105, 116, 101, 114>>  \* "delimiter"
str_max_keys == <<109, 97, 120, 45, 107, 101, 121, 115>>  \* "max-keys"
str_prefix == <<112, 114, 101, 102, 105, 120>>  \* "prefix"
str_continuation_token_eq == <<99, 111, 110, 116, 105, 110, 117, 97, 116, 105, 111, 110, 45, 116, 111, 107, 101, 110, 61>>  \* "continuation-token="
str_date == <<100, 97, 116, 101>>  \* "date"
str_authorization == <<97, 117, 116, 104, 111, 114, 105, 122, 97, 116, 105, 111, 110>>  \* "authorization"
str_content_length == <<99, 111, 110, 116, 101, 110, 116, 45, 108, 101, 110, 103, 116, 104>>  \* "content-length"
str_OSS == <<79, 83, 83, 32>>  \* "OSS "
str_get_msg == <<99, 97, 110, 32, 110, 111, 116, 32, 103, 101, 116, 32, 111, 98, 106, 101, 99, 116, 44, 32, 115, 116, 97, 116, 117, 115, 32, 99, 111, 100, 101, 58, 32>>  \* "can not get object, status code: "
str_put_msg == <<99, 97, 110, 32, 110, 111, 116, 32, 112, 117, 116, 32, 111, 98, 106, 101, 99, 116, 44, 32, 115, 116, 97, 116, 117, 115, 32, 99, 111, 100, 101, 58, 32>>  \* "can not put object, status code: "
str_delete_msg == <<99, 97, 110, 32, 110, 111, 116, 32, 100, 101, 108, 101, 116, 101, 32, 111, 98, 106, 101, 99, 116, 44, 32, 115, 116, 97, 116, 117, 115, 32, 99, 111, 100, 101, 58, 32>>  \* "can not delete object, status code: "
str_true == <<116, 114, 117, 101>>  \* "true"
str_false == <<102, 97, 108, 115, 101>>  \* "false"

(* const RESOURCES: [&str; 51], the sub-resource allow-list ("comp" occurs  *)
(* twice in the source array).                                             *)
RESOURCES == <<
    <<97, 99, 108>>,  \* acl
    <<117, 112, 108, 111, 97, 100, 115>>,  \* uploads
    <<108, 111, 99, 97, 116, 105, 111, 110>>,  \* location
    <<99, 111, 114, 115>>,  \* cors
    <<108, 111, 103, 103, 105, 110, 103>>,  \* logging
    <<119, 101, 98, 115, 105, 116, 101>>,  \* website
    <<114, 101, 102, 101, 114, 101, 114>>,  \* referer
    <<108, 105, 102, 101, 99, 121, 99, 108, 101>>,  \* lifecycle
    <<100, 101, 108, 101, 116, 101>>,  \* delete
    <<97, 112, 112, 101, 110, 100>>,  \* append
    <<116, 97, 103, 103, 105, 110, 103>>,  \* tagging
    <<111, 98, 106, 101, 99, 116, 77, 101, 116, 97>>,  \* objectMeta
    <<117, 112, 108, 111, 97, 100, 73, 100>>,  \* uploadId
    <<112, 97, 114, 116, 78, 117, 109, 98, 101, 114>>,  \* partNumber
    <<115, 101, 99, 117, 114, 105, 116, 121, 45, 116, 111, 107, 101, 110>>,  \* security-token
    <<112, 111, 115, 105, 116, 105, 111, 110>>,  \* position
    <<105, 109, 103>>,  \* img
    <<115, 116, 121, 108, 101>>,  \* style
    <<115, 116, 121, 108, 101, 78, 97, 109, 101>>,  \* styleName
    <<114, 101, 112, 108, 105, 99, 97, 116, 105, 111, 110>>,  \* replication
    <<114, 101, 112, 108, 105, 99, 97, 116, 105, 111, 110, 80, 114, 111, 103, 114, 101, 115, 115>>,  \* replicationProgress
    <<114, 101, 112, 108, 105, 99, 97, 116, 105, 111, 110, 76, 111, 99, 97, 116, 105, 111, 110>>,  \* replicationLocation
    <<99, 110, 97, 109, 101>>,  \* cname
    <<98, 117, 99, 107, 101, 116, 73, 110, 102, 111>>,  \* bucketInfo
    <<99, 111, 109, 112>>,  \* comp
    <<113, 111, 115>>,  \* qos
    <<108, 105, 118, 101>>,  \* live
    <<115, 116, 97, 116, 117, 115>>,  \* status
    <<118, 111, 100>>,  \* vod
    <<115, 116, 97, 114, 116, 84, 105, 109, 101>>,  \* startTime
    <<101, 110, 100, 84, 105, 109, 101>>,  \* endTime
    <<115, 121, 109, 108, 105, 110, 107>>,  \* symlink
    <<120, 45, 111, 115, 115, 45, 112, 114, 111, 99, 101, 115, 115>>,  \* x-oss-process
    <<114, 101, 115, 112, 111, 110, 115, 101, 45, 99, 111, 110, 116, 101, 110, 116, 45, 116, 121, 112, 101>>,  \* response-content-type
    <<114, 101, 115, 112, 111, 110, 115, 101, 45, 99, 111, 110, 116, 101, 110, 116, 45, 108, 97, 110, 103, 117, 97, 103, 101>>,  \* response-content-language
    <<114, 101, 115, 112, 111, 110, 115, 101, 45, 101, 120, 112, 105, 114, 101, 115>>,  \* response-expires
    <<114, 101, 115, 112, 111, 110, 115, 101, 45, 99, 97, 99, 104, 101, 45, 99, 111, 110, 116, 114, 111, 108>>,  \* response-cache-control
    <<114, 101, 115, 112, 111, 110, 115, 101, 45, 99, 111, 110, 116, 101, 110, 116, 45, 100, 105, 115, 112, 111, 115, 105, 116, 105, 111, 110>>,  \* response-content-disposition
    <<114, 101, 115, 112, 111, 110, 115, 101, 45, 99, 111, 110, 116, 101, 110, 116, 45, 101, 110, 99, 111, 100, 105, 110, 103>>,  \* response-content-encoding
    <<117, 100, 102>>,  \* udf
    <<117, 100, 102, 78, 97, 109, 101>>,  \* udfName
    <<117, 100, 102, 73, 109, 97, 103, 101>>,  \* udfImage
    <<117, 100, 102, 73, 100>>,  \* udfId
    <<117, 100, 102, 73, 109, 97, 103, 101, 68, 101, 115, 99>>,  \* udfImageDesc
    <<117, 100, 102, 65, 112, 112, 108, 105, 99, 97, 116, 105, 111, 110>>,  \* udfApplication
    <<99, 111, 109, 112>>,  \* comp
    <<117, 100, 102, 65, 112, 112, 108, 105, 99, 97, 116, 105, 111, 110, 76, 111, 103>>,  \* udfApplicationLog
    <<114, 101, 115, 116, 111, 114, 101>>,  \* restore
    <<99, 97, 108, 108, 98, 97, 99, 107>>,  \* callback
    <<99, 97, 108, 108, 98, 97, 99, 107, 45, 118, 97, 114>>,  \* callback-var
    <<99, 111, 110, 116, 105, 110, 117, 97, 116, 105, 111, 110, 45, 116, 111, 107, 101, 110>>  \* continuation-token
>>

-----------------------------------------------------------------------------
(* Bounds of the model.                                                    *)

\* the largest number of entries of a caller-supplied query-parameter map
MaxParams == 3

-----------------------------------------------------------------------------
(* Helpers for byte strings and sequences.                                 *)

Range(s) == {s[i] : i \in 1..Len(s)}

\* slice::contains
Contains(arr, x) == \E i \in 1..Len(arr) : arr[i] = x

Min2(a, b) == IF a <= b THEN a ELSE b

\* Ordering of String / str (Ord::cmp): byte-wise lexicographic, a proper
\* prefix is smaller.
StrLess(a, b) ==
    \E i \in 1..(Min2(Len(a), Len(b)) + 1) :
        /\ \A j \in 1..(i - 1) : a[j] = b[j]
        /\ \/ i = Len(a) + 1 /\ i <= Len(b)
           \/ i <= Len(a) /\ i <= Len(b) /\ a[i] < b[i]

\* str::starts_with
StartsWith(s, p) == Len(p) <= Len(s) /\ SubSeq(s, 1, Len(p)) = p

\* the text after the first Len(p) bytes
DropPrefix(s, p) == SubSeq(s, Len(p) + 1, Len(s))

\* str::contains (substring search)
StrContains(s, p) ==
    \E i \in 0..(Len(s) - Len(p)) : SubSeq(s, i + 1, i + Len(p)) = p

\* The iteration orders a HashMap with key set S may have: every
\* arrangement of the keys.
Orders(S) ==
    {o \in [1..Cardinality(S) -> S] : \A i, j \in DOMAIN o : o[i] = o[j] => i = j}

\* Option<S>
None == [some |-> FALSE, v |-> <<>>]
Some(x) == [some |-> TRUE, v |-> x]

-----------------------------------------------------------------------------
(* CanonicalResourceFilter: OSS::get_resources_str and OSS::get_params_str *)

\* params.iter().filter(|(k, _)| RESOURCES.contains(&k)).collect(), with the
\* map iterated in the order `order`
filter_resources(order) == SelectSeq(order, LAMBDA k : Contains(RESOURCES, k))

RECURSIVE InsertSorted(_, _)
InsertSorted(sorted, k) ==
    IF sorted = <<>> THEN <<k>>
    ELSE IF StrLess(k, sorted[Len(sorted)])
         THEN Append(InsertSorted(SubSeq(sorted, 1, Len(sorted) - 1), k),
                     sorted[Len(sorted)])
         ELSE Append(sorted, k)

\* resources.sort_by(|a, b| a.0.to_string().cmp(&b.0.to_string())): a stable
\* sort by name
RECURSIVE sort_by(_)
sort_by(names) ==
    IF names = <<>> THEN <<>>
    ELSE InsertSorted(sort_by(SubSeq(names, 1, Len(names) - 1)), names[Len(names)])

\* the loop that renders the sorted entries into `result`
RECURSIVE join_resources(_, _, _)
join_resources(params, names, result) ==
    IF names = <<>> THEN result
    ELSE LET k == Head(names)
             v == params[k]
             sep == IF result /= <<>> THEN result \o str_amp ELSE result
             r == IF v.some THEN sep \o k \o str_eq \o v.v ELSE sep \o k
         IN  join_resources(params, Tail(names), r)

\* OSS::get_params_str(params); `order` is the iteration order of the map
get_params_str(params, order) ==
    join_resources(params, sort_by(filter_resources(order)), <<>>)

\* get_resources_str without its sort_by: the names in the map's iteration order
get_resources_str_unsorted(params, order) ==
    join_resources(params, filter_resources(order), <<>>)

\* OSS::get_resources_str(&self, params)
get_resources_str(params, order) ==
    join_resources(params, sort_by(filter_resources(order)), <<>>)

-----------------------------------------------------------------------------
(* Header maps (reqwest::header::HeaderMap), status codes, results.        *)

\* the bytes a header name may hold (http::header::HeaderName): letters,
\* digits and  ! # $ % & ' * + - . ^ _ ` | ~
IsTokenByte(b) ==
    \/ b \in 48..57 \/ b \in 65..90 \/ b \in 97..122
    \/ b \in {33, 35, 36, 37, 38, 39, 42, 43, 45, 46, 94, 95, 96, 124, 126}

LowerByte(b) == IF b \in 65..90 THEN b + 32 ELSE b

LowerStr(s) == [i \in 1..Len(s) |-> LowerByte(s[i])]

\* HeaderName::from_bytes: Err for an empty name or a byte outside the token
\* set, otherwise the name in lower case
HeaderName_from_bytes(s) ==
    IF s = <<>> \/ \E i \in 1..Len(s) : ~IsTokenByte(s[i])
    THEN [ok |-> FALSE, name |-> <<>>]
    ELSE [ok |-> TRUE, name |-> LowerStr(s)]

\* HeaderValue::from_str(s) is Ok: on the way out a header value may hold a
\* tab and every byte from 32 up, bytes of 128 and more included, except 127
HeaderValue_from_str(s) == \A i \in 1..Len(s) : (s[i] >= 32 /\ s[i] # 127) \/ s[i] = 9

\* HeaderValue::to_str() is Ok: on the way in only visible ASCII and tab are
\* turned into a &str
IsVisibleAscii(s) == \A i \in 1..Len(s) : (s[i] >= 32 /\ s[i] < 127) \/ s[i] = 9

EmptyHeaderMap == <<>>

\* HeaderMap::insert: the value replaces an earlier one of that name
HeaderMap_insert(h, name, val) ==
    [n \in (DOMAIN h) \cup {name} |-> IF n = name THEN val ELSE h[n]]

\* HeaderMap::get with a string key: no entry for a name that is no header
\* name, the lookup is by the lower-cased name
HeaderMap_get(h, key) ==
    LET n == HeaderName_from_bytes(key)
    IN  IF n.ok /\ n.name \in DOMAIN h THEN Some(h[n.name]) ELSE None

\* StatusCode::is_success
is_success(status) == 300 > status /\ status >= 200

RECURSIVE Decimal(_)
\* the decimal digits of a number (Display for u16)
Decimal(n) ==
    IF n < 10 THEN <<48 + n>> ELSE Append(Decimal(n \div 10), 48 + (n % 10))

\* StatusCode::canonical_reason, for the status codes of the model
canonical_reason(status) ==
    CASE status = 200 -> <<79, 75>>                                     \* "OK"
      [] status = 300 -> <<77, 117, 108, 116, 105, 112, 108, 101, 32,
                           67, 104, 111, 105, 99, 101, 115>>            \* "Multiple Choices"
      [] status = 404 -> <<78, 111, 116, 32, 70, 111, 117, 110, 100>>   \* "Not Found"
      [] OTHER -> <<60, 117, 110, 107, 110, 111, 119, 110, 32, 115, 116, 97, 116,
                    117, 115, 32, 99, 111, 100, 101, 62>>               \* "<unknown status code>"

\* Display for StatusCode: "<code> <reason>"
status_display(status) == Decimal(status) \o str_space \o canonical_reason(status)

\* Result<T, Error>, and the panic of a call
NoResult == [kind |-> "None", err |-> "", obj |-> "", msg |-> <<>>, value |-> <<>>]
Ok(v) == [kind |-> "Ok", err |-> "", obj |-> "", msg |-> <<>>, value |-> v]
Err(variant) == [kind |-> "Err", err |-> variant, obj |-> "", msg |-> <<>>, value |-> <<>>]
ObjErr(variant, msg) ==
    [kind |-> "Err", err |-> "Object", obj |-> variant, msg |-> msg, value |-> <<>>]
Panic == [kind |-> "Panic", err |-> "", obj |-> "", msg |-> <<>>, value |-> <<>>]

-----------------------------------------------------------------------------
(* String::from_utf8                                                       *)

IsCont(b) == b \in 128..191

RECURSIVE IsUtf8(_)
IsUtf8(s) ==
    IF s = <<>> THEN TRUE
    ELSE LET b == s[1]
             n == Len(s)
             rest(k) == IsUtf8(SubSeq(s, k + 1, n))
         IN  CASE b < 128 -> rest(1)
               [] b \in 194..223 -> n >= 2 /\ IsCont(s[2]) /\ rest(2)
               [] b = 224 -> n >= 3 /\ s[2] \in 160..191 /\ IsCont(s[3]) /\ rest(3)
               [] b \in (225..236) \cup {238, 239} ->
                    n >= 3 /\ IsCont(s[2]) /\ IsCont(s[3]) /\ rest(3)
               [] b = 237 -> n >= 3 /\ s[2] \in 128..159 /\ IsCont(s[3]) /\ rest(3)
               [] b = 240 ->
                    n >= 4 /\ s[2] \in 144..191 /\ IsCont(s[3]) /\ IsCont(s[4]) /\ rest(4)
               [] b \in 241..243 ->
                    n >= 4 /\ IsCont(s[2]) /\ IsCont(s[3]) /\ IsCont(s[4]) /\ rest(4)
               [] b = 244 ->
                    n >= 4 /\ s[2] \in 128..143 /\ IsCont(s[3]) /\ IsCont(s[4]) /\ rest(4)
               [] OTHER -> FALSE

-----------------------------------------------------------------------------
(* RequestAssembler                                                        *)

\* str::replacen(pat, "", 1): the first occurrence of pat removed
replacen_first(s, pat) ==
    IF StrContains(s, pat)
    THEN LET i == CHOOSE i \in 0..(Len(s) - Len(pat)) :
                    /\ SubSeq(s, i + 1, i + Len(pat)) = pat
                    /\ \A j \in 0..(i - 1) : SubSeq(s, j + 1, j + Len(pat)) /= pat
         IN  SubSeq(s, 1, i) \o SubSeq(s, i + Len(pat) + 1, Len(s))
    ELSE s

\* OSS::host: the URL of a request
host(endpoint, bucket, object, resources_str) ==
    IF StartsWith(endpoint, str_https)
    THEN str_https_scheme \o bucket \o str_dot
           \o replacen_first(endpoint, str_https_scheme)
           \o str_slash \o object \o str_qmark \o resources_str
    ELSE str_http_scheme \o bucket \o str_dot
           \o replacen_first(endpoint, str_http_scheme)
           \o str_slash \o object \o str_qmark \o resources_str

\* OSS::date: the request time as an RFC-1123 GMT timestamp; the clock of the
\* model stands at "Mon, 01 Jan 2024 00:00:00 GMT"
date == <<77, 111, 110, 44, 32, 48, 49, 32, 74, 97, 110, 32, 50, 48, 50, 52, 32,
          48, 48, 58, 48, 48, 58, 48, 48, 32, 71, 77, 84>>

\* Auth::oss_sign (auth.rs): the Authorization value "OSS <key_id>:<signature>".
\* The signature is the keyed hash of the string-to-sign; the model keeps what
\* is hashed in place of the digest.
oss_sign(verb, key_id, key_secret, bucket, object, oss_resources, headers) ==
    [scheme |-> str_OSS \o key_id \o str_colon,
     signed |-> [verb |-> verb, key |-> key_secret, bucket |-> bucket,
                 object |-> object, resource |-> oss_resources,
                 headers |-> headers]]

-----------------------------------------------------------------------------
(* The inputs of the model.                                                *)

\* query-parameter names a caller passes: "acl", "uploads", "uploadId" are on
\* the allow-list, "foo" and "Acl" are not
ParamNames ==
    {<<97, 99, 108>>, <<117, 112, 108, 111, 97, 100, 115>>,
     <<117, 112, 108, 111, 97, 100, 73, 100>>, <<102, 111, 111>>, <<65, 99, 108>>}

\* Option<S> values of a query parameter: None, Some("1")
ParamValues == {None, Some(<<49>>)}

\* HashMap<S, Option<S>> with at most MaxParams entries
ParamMaps ==
    UNION {[ks -> ParamValues] : ks \in {x \in SUBSET ParamNames : Cardinality(x) <= MaxParams}}

\* the object name of the calls: "o.txt"
ObjectName == <<111, 46, 116, 120, 116>>

\* status codes the transport answers with
Statuses == {199, 200, 299, 300, 404}

\* meta_keys of get / get_as_buffer: [], ["k"], ["K", "x-oss-meta-k"]
MetaKeyLists ==
    {<<>>, <<(<<107>>)>>, <<(<<75>>), <<120, 45, 111, 115, 115, 45, 109, 101, 116, 97, 45, 107>>>>}

\* header "x-oss-meta-k"
hdr_meta_k == <<120, 45, 111, 115, 115, 45, 109, 101, 116, 97, 45, 107>>

\* header "etag"
hdr_etag == <<101, 116, 97, 103>>

\* what a response to get carries (headers, body, whether the body can be
\* read): bodies "", "hi" and the invalid UTF-8 byte 0xFF; header values "v"
\* and the byte 200, which is no visible ASCII
GetPayloads ==
    {[headers |-> EmptyHeaderMap, body |-> <<>>, read |-> TRUE],
     [headers |-> HeaderMap_insert(EmptyHeaderMap, hdr_meta_k, <<118>>),
      body |-> <<104, 105>>, read |-> TRUE],
     [headers |-> HeaderMap_insert(HeaderMap_insert(EmptyHeaderMap, hdr_meta_k, <<200>>),
                                   hdr_etag, <<118>>),
      body |-> <<104, 105>>, read |-> TRUE],
     [headers |-> HeaderMap_insert(EmptyHeaderMap, hdr_meta_k, <<118>>),
      body |-> <<255>>, read |-> TRUE],
     [headers |-> EmptyHeaderMap, body |-> <<104, 105>>, read |-> FALSE]}

\* the largest number of entries of a caller-supplied metadata map
MaxMeta == 2

\* metadata keys: "k", "K", "x-oss-meta-k"
MetaKeys == {<<107>>, <<75>>, <<120, 45, 111, 115, 115, 45, 109, 101, 116, 97, 45, 107>>}

\* metadata values: "v", "\u{e9}" (bytes 195 169, a header value that is no
\* visible ASCII) and a line feed, which is no header value
MetaValues == {<<118>>, <<195, 169>>, <<10>>}

\* HashMap<S, S> of user metadata with at most MaxMeta entries
MetaMaps ==
    UNION {[ks -> MetaValues] : ks \in {x \in SUBSET MetaKeys : Cardinality(x) <= MaxMeta}}

\* extra headers of a put: {"etag": "\u{e9}"}, {"x-oss-meta-k": "w", "etag": "v"},
\* {"a b": "v"}
PutHeaderMaps ==
    {HeaderMap_insert(EmptyHeaderMap, hdr_etag, <<195, 169>>),
     HeaderMap_insert(HeaderMap_insert(EmptyHeaderMap, hdr_etag, <<118>>), hdr_meta_k, <<119>>),
     HeaderMap_insert(EmptyHeaderMap, <<97, 32, 98>>, <<118>>)}

\* query parameters of a put: maps over "comp" (on the allow-list) and "foo"
PutParamMaps ==
    UNION {[ks -> ParamValues] :
             ks \in SUBSET {<<99, 111, 109, 112>>, <<102, 111, 111>>}}

-----------------------------------------------------------------------------
(* State.                                                                  *)

VARIABLES
    oss,      \* the client: key_id, key_secret, endpoint, bucket
    phase,    \* "idle": no call in progress; "await": a request is with the
              \* transport; "done": the call has returned and the caller holds the result
    call,     \* the arguments of the call in progress, or of the last call
              \* (for del_multi also the answers to its dels so far)
    sent,     \* the requests handed to the transport by that call
    resp,     \* what the transport answered last to that call
    result,   \* what the last call returned
    stored_keys,  \* the keys the service holds, in listing order
    pager     \* a caller that pages through the listing with list_details

vars == <<oss, phase, call, sent, resp, result, stored_keys, pager>>

NoCall == [op |-> "none"]

\* no paging caller
PagerOff == [state |-> "off", marker |-> <<>>, collected |-> <<>>, asked |-> <<>>,
             sizes |-> <<>>]

\* no answer (yet), and the answer of a transport that failed (send() is Err)
NoResponse == [sent |-> FALSE, status |-> 0, headers |-> <<>>, body |-> <<>>, read |-> FALSE]

\* OSS::new
Init ==
    /\ oss = [key_id |-> <<105, 100>>,                 \* "id"
              key_secret |-> <<115, 101, 99, 114, 101, 116>>,   \* "secret"
              endpoint |-> <<104, 116, 116, 112, 115, 58, 47, 47, 101, 46, 99, 111, 109>>,
                                                       \* "https://e.com"
              bucket |-> <<98>>]                       \* "b"
    /\ phase = "idle"
    /\ call = NoCall
    /\ sent = <<>>
    /\ resp = NoResponse
    /\ result = NoResult
    /\ stored_keys = <<>>
    /\ pager = PagerOff

\* a request as the transport receives it
Request(verb, url, headers, auth) ==
    [verb |-> verb, url |-> url, headers |-> headers, auth |-> auth]

\* the part of a URL after the first "?"
RECURSIVE url_query(_)
url_query(url) ==
    IF url = <<>> THEN <<>>
    ELSE IF Head(url) = 63 THEN Tail(url) ELSE url_query(Tail(url))

-----------------------------------------------------------------------------
(* get and get_as_buffer                                                   *)

RECURSIVE collect_meta_unprefixed(_, _, _)
\* collect_meta with headers.get(str): the lookup without OSS_META_PREFIX
collect_meta_unprefixed(headers, meta_filter, meta) ==
    IF meta_filter = <<>> THEN [ok |-> TRUE, meta |-> meta]
    ELSE LET str == Head(meta_filter)
             got == HeaderMap_get(headers, str)
         IN  IF got.some
             THEN IF IsVisibleAscii(got.v)
                  THEN collect_meta_unprefixed(headers, Tail(meta_filter),
                                               HeaderMap_insert(meta, str, got.v))
                  ELSE [ok |-> FALSE, meta |-> meta]
             ELSE collect_meta_unprefixed(headers, Tail(meta_filter), meta)

\* the loop of GetBufferedObjResponse::new over meta_filter
RECURSIVE collect_meta(_, _, _)
collect_meta(headers, meta_filter, meta) ==
    IF meta_filter = <<>> THEN [ok |-> TRUE, meta |-> meta]
    ELSE LET str == Head(meta_filter)
             got == HeaderMap_get(headers, OSS_META_PREFIX \o str)
         IN  IF got.some
             THEN IF IsVisibleAscii(got.v)
                  THEN collect_meta(headers, Tail(meta_filter),
                                    HeaderMap_insert(meta, str, got.v))
                  ELSE [ok |-> FALSE, meta |-> meta]     \* _value.to_str()?
             ELSE collect_meta(headers, Tail(meta_filter), meta)

\* GetBufferedObjResponse::new
GetBufferedObjResponse_new(content, headers, meta_filter) ==
    LET m == collect_meta(headers, meta_filter, <<>>)
    IN  IF m.ok
        THEN Ok([content |-> content, meta |-> m.meta, headers |-> headers])
        ELSE Err("Convert")

\* impl Into<GetObjResponse> for GetBufferedObjResponse
into_GetObjResponse(obj) ==
    IF IsUtf8(obj.content) THEN Ok(obj) ELSE Panic

\* get_as_buffer up to the send: assemble the request and hand it to the
\* transport.  params is an Option of a map, order the iteration order of the
\* map.
get_as_buffer_request(params, order) ==
    LET params_string == IF params.some THEN get_resources_str(params.v, order) ELSE <<>>
        url == host(oss.endpoint, oss.bucket, ObjectName, params_string)
        h1 == HeaderMap_insert(EmptyHeaderMap, str_date, date)
        authorization == oss_sign("GET", oss.key_id, oss.key_secret, oss.bucket,
                                  ObjectName, params_string, h1)
        h2 == HeaderMap_insert(h1, str_authorization, authorization.scheme)
    IN  Request("GET", url, h2, authorization.signed)

\* get_as_buffer from the answer of the transport on
get_as_buffer_response(rsp, meta_keys) ==
    IF ~rsp.sent THEN Err("Reqwest")                          \* send()?
    ELSE IF is_success(rsp.status)
         THEN IF ~rsp.read THEN Err("Reqwest")                 \* copy_to(..)?
              ELSE GetBufferedObjResponse_new(rsp.body, rsp.headers, meta_keys)
         ELSE ObjErr("GetError", str_get_msg \o status_display(rsp.status))

\* a caller starts get or get_as_buffer
GetSend(op, params, meta_keys) ==
    /\ phase = "idle"
    /\ \E order \in (IF params.some THEN Orders(DOMAIN params.v) ELSE {<<>>}) :
          sent' = <<get_as_buffer_request(params, order)>>
    /\ call' = [op |-> op, params |-> params, meta_keys |-> meta_keys]
    /\ phase' = "await"
    /\ UNCHANGED <<stored_keys, pager, oss, resp, result>>

\* the transport answers, get / get_as_buffer returns
GetRecv(rsp) ==
    /\ phase = "await"
    /\ call.op \in {"get", "get_as_buffer"}
    /\ LET r == get_as_buffer_response(rsp, call.meta_keys)
       IN  result' = IF call.op = "get" /\ r.kind = "Ok"
                     THEN into_GetObjResponse(r.value) ELSE r
    /\ resp' = rsp
    /\ phase' = "done"
    /\ UNCHANGED <<stored_keys, pager, oss, call, sent>>

\* what the transport may answer to a get
GetResponses ==
    {NoResponse}
    \cup {[sent |-> TRUE, status |-> st, headers |-> p.headers, body |-> p.body,
           read |-> p.read] : st \in {s \in Statuses : is_success(s)}, p \in GetPayloads}
    \cup {[sent |-> TRUE, status |-> st, headers |-> EmptyHeaderMap, body |-> <<104, 105>>,
           read |-> TRUE] : st \in {s \in Statuses : ~is_success(s)}}

-----------------------------------------------------------------------------
(* utils.rs: to_meta_headers, to_headers                                   *)

\* the loop of to_meta_headers over meta.iter(), in the order `order`; the
\* first key or value that is no header name or value ends it with Err
RECURSIVE to_meta_headers_loop(_, _, _)
to_meta_headers_loop(meta, order, headers) ==
    IF order = <<>> THEN [ok |-> TRUE, headers |-> headers]
    ELSE LET key == Head(order)
             name == HeaderName_from_bytes(OSS_META_PREFIX \o key)
         IN  IF ~name.ok \/ ~HeaderValue_from_str(meta[key])
             THEN [ok |-> FALSE, headers |-> EmptyHeaderMap]
             ELSE to_meta_headers_loop(meta, Tail(order),
                                       HeaderMap_insert(headers, name.name, meta[key]))

\* to_meta_headers(meta)
to_meta_headers(meta, order) == to_meta_headers_loop(meta, order, EmptyHeaderMap)

\* the loop of to_headers over hashmap.iter()
RECURSIVE to_headers_loop(_, _, _)
to_headers_loop(hashmap, order, headers) ==
    IF order = <<>> THEN [ok |-> TRUE, headers |-> headers]
    ELSE LET key == Head(order)
             name == HeaderName_from_bytes(key)
         IN  IF ~name.ok \/ ~HeaderValue_from_str(hashmap[key])
             THEN [ok |-> FALSE, headers |-> EmptyHeaderMap]
             ELSE to_headers_loop(hashmap, Tail(order),
                                  HeaderMap_insert(headers, name.name, hashmap[key]))

\* to_headers(hashmap)
to_headers(hashmap, order) == to_headers_loop(hashmap, order, EmptyHeaderMap)

\* HeaderMap::extend with another HeaderMap: its entries replace those of
\* the same name
HeaderMap_extend(h, other) ==
    [n \in (DOMAIN h) \cup (DOMAIN other) |-> IF n \in DOMAIN other THEN other[n] ELSE h[n]]

-----------------------------------------------------------------------------
(* put                                                                     *)

\* PutOptions::new(content_type, meta, headers, params); meta, headers and
\* params are Options of maps, the orders are the iteration orders of the maps
PutOptions_new(meta, meta_order, headers, headers_order, params, params_order) ==
    LET m == IF meta.some THEN to_meta_headers(meta.v, meta_order)
             ELSE [ok |-> FALSE, headers |-> EmptyHeaderMap]
        header_map == IF m.ok THEN m.headers ELSE EmptyHeaderMap   \* .ok().unwrap_or_default()
        h == IF headers.some THEN to_headers(headers.v, headers_order)
             ELSE [ok |-> FALSE, headers |-> EmptyHeaderMap]
        extra == IF h.ok THEN h.headers ELSE EmptyHeaderMap
        param_string == IF params.some THEN get_params_str(params.v, params_order) ELSE <<>>
    IN  [headers |-> HeaderMap_extend(header_map, extra), params |-> param_string]

\* put up to the send; opts is an Option of PutOptions
put_request(buf, opts) ==
    LET params == IF opts.some THEN opts.v.params ELSE <<>>
        h0 == IF opts.some THEN opts.v.headers ELSE EmptyHeaderMap
        url == host(oss.endpoint, oss.bucket, ObjectName, params)
        h1 == HeaderMap_insert(h0, str_date, date)
        h2 == HeaderMap_insert(h1, str_content_length, Decimal(Len(buf)))
        authorization == oss_sign("PUT", oss.key_id, oss.key_secret, oss.bucket,
                                  ObjectName, params, h2)
        h3 == HeaderMap_insert(h2, str_authorization, authorization.scheme)
    IN  Request("PUT", url, h3, authorization.signed)

\* put from the answer of the transport on
put_response(rsp) ==
    IF ~rsp.sent THEN Err("Reqwest")
    ELSE IF is_success(rsp.status) THEN Ok(<<>>)
         ELSE ObjErr("PutError", str_put_msg \o status_display(rsp.status))

\* the body of the puts: "hi"
PutBuf == <<104, 105>>

OrdersOf(optmap) == IF optmap.some THEN Orders(DOMAIN optmap.v) ELSE {<<>>}

\* what the transport may answer to a put or a del: a failure, or a status
StatusResponses ==
    {NoResponse}
    \cup {[sent |-> TRUE, status |-> st, headers |-> EmptyHeaderMap, body |-> <<>>,
           read |-> TRUE] : st \in Statuses}

\* a caller builds PutOptions from (meta, headers, params) and puts with them
PutSend(meta, headers, params) ==
    /\ phase = "idle"
    /\ \E mo \in OrdersOf(meta), ho \in OrdersOf(headers), po \in OrdersOf(params) :
          sent' = <<put_request(PutBuf,
                        Some(PutOptions_new(meta, mo, headers, ho, params, po)))>>
    /\ call' = [op |-> "put", opts |-> TRUE, meta |-> meta, headers |-> headers,
                params |-> params]
    /\ phase' = "await"
    /\ UNCHANGED <<stored_keys, pager, oss, resp, result>>

\* a caller puts without options
PutSendNone ==
    /\ phase = "idle"
    /\ sent' = <<put_request(PutBuf, None)>>
    /\ call' = [op |-> "put", opts |-> FALSE, meta |-> None, headers |-> None,
                params |-> None]
    /\ phase' = "await"
    /\ UNCHANGED <<stored_keys, pager, oss, resp, result>>

\* PutRecv with a retry: after a failure the request is sent once more
PutRecv_retry(rsp) ==
    /\ phase = "await"
    /\ call.op = "put"
    /\ result' = put_response(rsp)
    /\ resp' = rsp
    /\ IF put_response(rsp).kind = "Err" /\ Len(sent) = 1
       THEN sent' = Append(sent, sent[1]) /\ phase' = "await"
       ELSE sent' = sent /\ phase' = "done"
    /\ UNCHANGED <<stored_keys, pager, oss, call>>

\* the transport answers, put returns
PutRecv(rsp) ==
    /\ phase = "await"
    /\ call.op = "put"
    /\ result' = put_response(rsp)
    /\ resp' = rsp
    /\ phase' = "done"
    /\ UNCHANGED <<stored_keys, pager, oss, call, sent>>

-----------------------------------------------------------------------------
(* del                                                                     *)

\* del up to the send
del_request(object_name) ==
    LET url == host(oss.endpoint, oss.bucket, object_name, <<>>)
        h1 == HeaderMap_insert(EmptyHeaderMap, str_date, date)
        authorization == oss_sign("DELETE", oss.key_id, oss.key_secret, oss.bucket,
                                  object_name, <<>>, h1)
        h2 == HeaderMap_insert(h1, str_authorization, authorization.scheme)
    IN  Request("DELETE", url, h2, authorization.signed)

del_response(rsp) ==
    IF ~rsp.sent THEN Err("Reqwest")
    ELSE IF is_success(rsp.status) THEN Ok(<<>>)
         ELSE ObjErr("DeleteError", str_delete_msg \o status_display(rsp.status))

DelSend ==
    /\ phase = "idle"
    /\ sent' = <<del_request(ObjectName)>>
    /\ call' = [op |-> "del"]
    /\ phase' = "await"
    /\ UNCHANGED <<stored_keys, pager, oss, resp, result>>

DelRecv(rsp) ==
    /\ phase = "await"
    /\ call.op = "del"
    /\ result' = del_response(rsp)
    /\ resp' = rsp
    /\ phase' = "done"
    /\ UNCHANGED <<stored_keys, pager, oss, call, sent>>

\* the largest number of names of a del_multi
MaxNames == 3

RECURSIVE NameLists(_)
\* the name lists of del_multi, in the order its iterator yields them: up to n
\* names out of "o.txt" and "p"
NameLists(n) ==
    IF n = 0 THEN {<<>>}
    ELSE LET shorter == NameLists(n - 1)
         IN  shorter \cup {Append(l, x) : l \in shorter, x \in {ObjectName, <<112>>}}

\* a caller starts del_multi: without names it returns Ok at once, otherwise
\* the del of the first name sends its request.  call.answers keeps what the
\* transport answered to the dels so far
DelMultiSend(object_names) ==
    /\ phase = "idle"
    /\ call' = [op |-> "del_multi", object_names |-> object_names, answers |-> <<>>]
    /\ IF object_names = <<>>
       THEN sent' = <<>> /\ result' = Ok(<<>>) /\ phase' = "done"
       ELSE sent' = <<del_request(object_names[1])>> /\ result' = result
            /\ phase' = "await"
    /\ UNCHANGED <<stored_keys, pager, oss, resp>>

\* DelMultiRecv that goes on to the next name after a failed del
DelMultiRecv_skip(rsp) ==
    /\ phase = "await"
    /\ call.op = "del_multi"
    /\ resp' = rsp
    /\ call' = [call EXCEPT !.answers = Append(@, rsp)]
    /\ IF Len(sent) < Len(call.object_names)
       THEN /\ sent' = Append(sent, del_request(call.object_names[Len(sent) + 1]))
            /\ result' = result
            /\ phase' = "await"
       ELSE /\ sent' = sent
            /\ result' = del_response(rsp)
            /\ phase' = "done"
    /\ UNCHANGED <<stored_keys, pager, oss>>

\* the transport answers the del in progress: `?` returns its error from
\* del_multi, otherwise the loop goes on to the next name or ends with Ok
DelMultiRecv(rsp) ==
    /\ phase = "await"
    /\ call.op = "del_multi"
    /\ resp' = rsp
    /\ call' = [call EXCEPT !.answers = Append(@, rsp)]
    /\ LET r == del_response(rsp)
       IN  IF r.kind = "Err"
           THEN sent' = sent /\ result' = r /\ phase' = "done"
           ELSE IF Len(sent) < Len(call.object_names)
           THEN /\ sent' = Append(sent, del_request(call.object_names[Len(sent) + 1]))
                /\ result' = result
                /\ phase' = "await"
           ELSE sent' = sent /\ result' = Ok(<<>>) /\ phase' = "done"
    /\ UNCHANGED <<stored_keys, pager, oss>>

-----------------------------------------------------------------------------
(* head                                                                    *)

RECURSIVE trim_start_matches(_, _)
\* str::trim_start_matches: the prefix removed as often as it leads the string
trim_start_matches(s, p) ==
    IF p /= <<>> /\ StartsWith(s, p) THEN trim_start_matches(DropPrefix(s, p), p) ELSE s

\* the loop of head over the response headers that start with "x-oss-meta-",
\* visited in the order `order`
RECURSIVE head_collect(_, _, _)
head_collect(headers, order, ret) ==
    IF order = <<>> THEN Ok(ret)
    ELSE LET key == Head(order)
         IN  IF ~StartsWith(key, OSS_META_PREFIX)
             THEN head_collect(headers, Tail(order), ret)
             ELSE IF ~IsUtf8(headers[key]) THEN Err("String")
             ELSE head_collect(headers, Tail(order),
                      HeaderMap_insert(ret, trim_start_matches(key, OSS_META_PREFIX),
                                       headers[key]))

head_request ==
    LET url == host(oss.endpoint, oss.bucket, ObjectName, <<>>)
        h1 == HeaderMap_insert(EmptyHeaderMap, str_date, date)
        authorization == oss_sign("HEAD", oss.key_id, oss.key_secret, oss.bucket,
                                  ObjectName, <<>>, h1)
        h2 == HeaderMap_insert(h1, str_authorization, authorization.scheme)
    IN  Request("HEAD", url, h2, authorization.signed)

\* head from the answer of the transport on; order is the iteration order of
\* the response headers
head_response(rsp, order) ==
    IF ~rsp.sent THEN Err("Reqwest")
    ELSE IF is_success(rsp.status) THEN head_collect(rsp.headers, order, <<>>)
         ELSE ObjErr("DeleteError", str_delete_msg \o status_display(rsp.status))

\* the header sets of a response to head: the metadata a put has stored (the
\* encoding of a metadata map), alone or beside an etag, and a metadata value
\* that is no UTF-8
StoredMetaHeaders ==
    UNION {{to_meta_headers(m, o).headers : o \in {x \in Orders(DOMAIN m) : to_meta_headers(m, x).ok}}
             : m \in MetaMaps}

HeadRespHeaders ==
    StoredMetaHeaders
    \cup {HeaderMap_insert(h, hdr_etag, <<118>>) : h \in StoredMetaHeaders}
    \cup {HeaderMap_insert(EmptyHeaderMap, hdr_meta_k, <<255>>)}

HeadResponses ==
    {NoResponse}
    \cup {[sent |-> TRUE, status |-> st, headers |-> h, body |-> <<>>, read |-> TRUE] :
            st \in Statuses, h \in HeadRespHeaders}

HeadSend ==
    /\ phase = "idle"
    /\ sent' = <<head_request>>
    /\ call' = [op |-> "head"]
    /\ phase' = "await"
    /\ UNCHANGED <<stored_keys, pager, oss, resp, result>>

HeadRecv(rsp) ==
    /\ phase = "await"
    /\ call.op = "head"
    /\ \E order \in Orders(DOMAIN rsp.headers) : result' = head_response(rsp, order)
    /\ resp' = rsp
    /\ phase' = "done"
    /\ UNCHANGED <<stored_keys, pager, oss, call, sent>>

-----------------------------------------------------------------------------
(* ResponseDecoder: the quick_xml Reader over a response body.             *)
(* A body is the sequence of events the reader yields for it (trim_text on: *)
(* no event for white space between tags); past the last event the reader   *)
(* yields Eof.                                                              *)

EvStart(name) == [t |-> "Start", name |-> name, text |-> <<>>]
EvEnd(name) == [t |-> "End", name |-> name, text |-> <<>>]
EvText(text) == [t |-> "Text", name |-> "", text |-> text]
\* <name/>
EvEmpty(name) == [t |-> "Empty", name |-> name, text |-> <<>>]
\* <?xml version="1.0" encoding="UTF-8"?>
EvDecl == [t |-> "Decl", name |-> "", text |-> <<>>]
EvEof == [t |-> "Eof", name |-> "", text |-> <<>>]
\* Err(e) of read_event
EvErr == [t |-> "Err", name |-> "", text |-> <<>>]

\* Reader::from_str: at the first event, no element open
Reader_from_str == [pos |-> 1, opened |-> <<>>]

\* Reader::read_event.  The reader keeps the names of the open elements and
\* (check_end_names) answers an end tag that does not close the innermost
\* open element with an error.
read_event(doc, rd) ==
    IF rd.pos > Len(doc) THEN [ev |-> EvEof, rd |-> rd]
    ELSE LET e == doc[rd.pos]
             n == Len(rd.opened)
         IN  CASE e.t = "Start" ->
                    [ev |-> e, rd |-> [pos |-> rd.pos + 1, opened |-> Append(rd.opened, e.name)]]
               [] e.t = "End" ->
                    IF n > 0 /\ rd.opened[n] = e.name
                    THEN [ev |-> e,
                          rd |-> [pos |-> rd.pos + 1, opened |-> SubSeq(rd.opened, 1, n - 1)]]
                    ELSE [ev |-> EvErr, rd |-> [pos |-> rd.pos + 1, opened |-> rd.opened]]
               [] OTHER -> [ev |-> e, rd |-> [pos |-> rd.pos + 1, opened |-> rd.opened]]

RECURSIVE read_to_end(_, _, _, _)
\* Reader::read_to_end(end): skip to the end tag that closes `end`
read_to_end(doc, rd, end, depth) ==
    LET r == read_event(doc, rd)
    IN  CASE r.ev.t = "End" /\ r.ev.name = end ->
               IF depth = 0 THEN [ok |-> TRUE, rd |-> r.rd]
               ELSE read_to_end(doc, r.rd, end, depth - 1)
          [] r.ev.t = "Start" /\ r.ev.name = end -> read_to_end(doc, r.rd, end, depth + 1)
          [] r.ev.t \in {"Err", "Eof"} -> [ok |-> FALSE, rd |-> r.rd]
          [] OTHER -> read_to_end(doc, r.rd, end, depth)

\* Reader::read_text(end): the text of the element just opened; Err unless
\* the next event is its text or its end tag
read_text(doc, rd, end) ==
    LET r == read_event(doc, rd)
    IN  CASE r.ev.t = "Text" ->
               LET e == read_to_end(doc, r.rd, end, 0)
               IN  [ok |-> e.ok, text |-> r.ev.text, rd |-> e.rd]
          [] r.ev.t = "End" /\ r.ev.name = end -> [ok |-> TRUE, text |-> <<>>, rd |-> r.rd]
          [] OTHER -> [ok |-> FALSE, text |-> <<>>, rd |-> r.rd]

\* str::parse::<bool>
parse_bool(s) ==
    IF s = str_true THEN [ok |-> TRUE, v |-> TRUE]
    ELSE IF s = str_false THEN [ok |-> TRUE, v |-> FALSE]
    ELSE [ok |-> FALSE, v |-> FALSE]

RECURSIVE list_objects_loop(_, _, _)
\* the event loop of list_objects
list_objects_loop(doc, rd, acc) ==
    LET r == read_event(doc, rd)
    IN  CASE r.ev.t = "Start" ->
               IF r.ev.name = "Key"
               THEN LET t == read_text(doc, r.rd, r.ev.name)
                    IN  IF t.ok THEN list_objects_loop(doc, t.rd, Append(acc, t.text))
                        ELSE Err("Qxml")
               ELSE list_objects_loop(doc, r.rd, acc)
          [] r.ev.t = "Eof" -> Ok(acc)
          [] r.ev.t = "Err" -> Panic
          [] OTHER -> list_objects_loop(doc, r.rd, acc)

\* DetailObjects::default(), ListDetailsResponse::default()
DetailObjects_default ==
    [key |-> <<>>, last_modified |-> <<>>, e_tag |-> <<>>, size |-> <<>>]
ListDetailsResponse_default ==
    [is_truncated |-> FALSE, objects |-> <<>>, prefixes |-> <<>>, next_marker |-> <<>>]

RECURSIVE common_prefixes_loop(_, _, _)
\* the nested loop of list_details after a CommonPrefixes start tag; answers
\* the prefixes collected and the reader at the matching end tag
common_prefixes_loop(doc, rd, prefixes) ==
    LET r == read_event(doc, rd)
    IN  CASE r.ev.t = "Start" ->
               IF r.ev.name = "PreFix"
               THEN LET t == read_text(doc, r.rd, r.ev.name)
                    IN  IF t.ok THEN common_prefixes_loop(doc, t.rd, Append(prefixes, t.text))
                        ELSE [kind |-> "Err", prefixes |-> prefixes, rd |-> t.rd]
               ELSE common_prefixes_loop(doc, r.rd, prefixes)
          [] r.ev.t = "End" ->
               IF r.ev.name = "CommonPrefixes"
               THEN [kind |-> "Ok", prefixes |-> prefixes, rd |-> r.rd]
               ELSE common_prefixes_loop(doc, r.rd, prefixes)
          [] OTHER -> [kind |-> "Panic", prefixes |-> prefixes, rd |-> r.rd]

RECURSIVE list_details_loop(_, _, _, _)
\* the event loop of list_details
list_details_loop(doc, rd, acc, cur_obj) ==
    LET r == read_event(doc, rd)
        name == r.ev.name
        t == read_text(doc, r.rd, name)
    IN  CASE r.ev.t = "Start" ->
               CASE name = "Contents" -> list_details_loop(doc, r.rd, acc, cur_obj)
                 [] name = "Key" ->
                      IF t.ok THEN list_details_loop(doc, t.rd, acc,
                                                     [cur_obj EXCEPT !.key = t.text])
                      ELSE Err("Qxml")
                 [] name = "LastModified" ->
                      IF t.ok THEN list_details_loop(doc, t.rd, acc,
                                                     [cur_obj EXCEPT !.last_modified = t.text])
                      ELSE Err("Qxml")
                 [] name = "ETag" ->
                      IF t.ok THEN list_details_loop(doc, t.rd, acc,
                                                     [cur_obj EXCEPT !.e_tag = t.text])
                      ELSE Err("Qxml")
                 [] name = "Size" ->
                      IF t.ok THEN list_details_loop(doc, t.rd, acc,
                                                     [cur_obj EXCEPT !.size = t.text])
                      ELSE Err("Qxml")
                 [] name = "IsTruncated" ->
                      IF ~t.ok THEN Err("Qxml")
                      ELSE IF ~parse_bool(t.text).ok THEN Err("ParseBool")
                      ELSE list_details_loop(doc, t.rd,
                               [acc EXCEPT !.is_truncated = parse_bool(t.text).v], cur_obj)
                 [] name = "NextContinuationToken" ->
                      IF t.ok THEN list_details_loop(doc, t.rd,
                                       [acc EXCEPT !.next_marker = t.text], cur_obj)
                      ELSE Err("Qxml")
                 [] name = "CommonPrefixes" ->
                      LET c == common_prefixes_loop(doc, r.rd, acc.prefixes)
                      IN  CASE c.kind = "Ok" ->
                                 list_details_loop(doc, c.rd,
                                     [acc EXCEPT !.prefixes = c.prefixes], cur_obj)
                            [] c.kind = "Err" -> Err("Qxml")
                            [] OTHER -> Panic
                 [] OTHER -> list_details_loop(doc, r.rd, acc, cur_obj)
          [] r.ev.t = "End" ->
               IF name = "Contents"
               THEN list_details_loop(doc, r.rd,
                        [acc EXCEPT !.objects = Append(acc.objects, cur_obj)],
                        DetailObjects_default)
               ELSE list_details_loop(doc, r.rd, acc, cur_obj)
          [] r.ev.t = "Eof" -> Ok(acc)
          [] r.ev.t = "Err" -> Panic
          [] OTHER -> list_details_loop(doc, r.rd, acc, cur_obj)

-----------------------------------------------------------------------------
(* list_objects and list_details                                           *)

\* get_list_2_params_str with continuation-token left out of the query: the
\* marker reaches the signature and never the service
get_list_2_params_str_unthreaded(opts) ==
    LET add(acc, k, v) == IF v /= <<>> THEN acc \o str_amp \o k \o str_eq \o v ELSE acc
    IN  <<add(add(add(str_list_type_2, str_delimiter, opts.delimiter),
                  str_max_keys, opts.max_keys),
              str_prefix, opts.prefix),
          IF opts.marker = <<>> THEN <<>> ELSE str_continuation_token_eq \o opts.marker>>

\* get_list_2_params_str without the `!v.is_empty()` test: empty options are
\* written too
get_list_2_params_str_all(opts) ==
    LET add(acc, k, v) == acc \o str_amp \o k \o str_eq \o v
    IN  <<add(add(add(add(str_list_type_2, str_continuation_token, opts.marker),
                      str_delimiter, opts.delimiter),
                  str_max_keys, opts.max_keys),
              str_prefix, opts.prefix),
          IF opts.marker = <<>> THEN <<>> ELSE str_continuation_token_eq \o opts.marker>>

\* OSS::get_list_2_params_str: (query string, canonical resource)
get_list_2_params_str(opts) ==
    LET params == << <<str_continuation_token, opts.marker>>,
                     <<str_delimiter, opts.delimiter>>,
                     <<str_max_keys, opts.max_keys>>,
                     <<str_prefix, opts.prefix>> >>
        resources == IF opts.marker = <<>> THEN <<>>
                     ELSE str_continuation_token_eq \o opts.marker
        add(acc, kv) == IF kv[2] /= <<>> THEN acc \o str_amp \o kv[1] \o str_eq \o kv[2]
                        ELSE acc
    IN  <<add(add(add(add(str_list_type_2, params[1]), params[2]), params[3]), params[4]),
          resources>>

\* ListOptions::default()
ListOptions_default == [prefix |-> <<>>, marker |-> <<>>, delimiter |-> <<>>, max_keys |-> <<>>]

\* list_objects / list_details up to the send; opts is an Option of ListOptions
list_request(opts) ==
    LET ps == get_list_2_params_str(IF opts.some THEN opts.v ELSE ListOptions_default)
        params_string == ps[1]
        oss_resources == ps[2]
        url == host(oss.endpoint, oss.bucket, <<>>, params_string)
        h1 == HeaderMap_insert(EmptyHeaderMap, str_date, date)
        authorization == oss_sign("GET", oss.key_id, oss.key_secret, oss.bucket,
                                  <<>>, oss_resources, h1)
        h2 == HeaderMap_insert(h1, str_authorization, authorization.scheme)
    IN  Request("GET", url, h2, authorization.signed)

\* list_objects from the answer of the transport on
list_objects_response(rsp) ==
    IF ~rsp.sent THEN Err("Reqwest")                  \* send()?
    ELSE IF ~rsp.read THEN Err("Reqwest")             \* resp.text()?
    ELSE list_objects_loop(rsp.body, Reader_from_str, <<>>)

\* list_details from the answer of the transport on
list_details_response(rsp) ==
    IF ~rsp.sent THEN Err("Reqwest")
    ELSE IF ~rsp.read THEN Err("Reqwest")
    ELSE list_details_loop(rsp.body, Reader_from_str, ListDetailsResponse_default,
                           DetailObjects_default)

\* a caller starts list_objects or list_details
ListSend(op, opts) ==
    /\ phase = "idle"
    /\ sent' = <<list_request(opts)>>
    /\ call' = [op |-> op, opts |-> opts]
    /\ phase' = "await"
    /\ UNCHANGED <<stored_keys, pager, oss, resp, result>>

\* the transport answers, list_objects / list_details returns
ListRecv(rsp) ==
    /\ phase = "await"
    /\ call.op \in {"list_objects", "list_details"}
    /\ result' = IF call.op = "list_objects" THEN list_objects_response(rsp)
                 ELSE list_details_response(rsp)
    /\ resp' = rsp
    /\ phase' = "done"
    /\ UNCHANGED <<stored_keys, pager, oss, call, sent>>

(* The listing documents of the model: up to MaxItems pieces in a row.     *)

\* <name>text</name>
Elem(name, text) == <<EvStart(name), EvText(text), EvEnd(name)>>

\* <Contents>children</Contents>
ContentsBlock(children) == <<EvStart("Contents")>> \o children \o <<EvEnd("Contents")>>

txt_a == <<97>>
txt_z == <<122>>
txt_t == <<116>>
txt_e == <<101>>
txt_1 == <<49>>
txt_2 == <<50>>
\* "t+/=", a continuation token
txt_token == <<116, 43, 47, 61>>
\* "p/"
txt_p == <<112, 47>>

\* a block with all four fields
FullBlock ==
    ContentsBlock(Elem("Key", txt_a) \o Elem("LastModified", txt_t)
                  \o Elem("ETag", txt_e) \o Elem("Size", txt_1))
\* a block without a key, with a tag the decoder does not know and a child of it
NoKeyBlock ==
    ContentsBlock(Elem("Size", txt_2)
                  \o <<EvStart("Owner")>> \o Elem("ID", txt_z) \o <<EvEnd("Owner")>>)
\* <Key>z</Key> outside any block
StrayKey == Elem("Key", txt_z)
TruncTrue == Elem("IsTruncated", str_true)
TruncFalse == Elem("IsTruncated", str_false)
\* <IsTruncated>True</IsTruncated>: no bool
TruncBad == Elem("IsTruncated", <<84, 114, 117, 101>>)
NextToken == Elem("NextContinuationToken", txt_token)
\* <CommonPrefixes><Prefix>p/</Prefix></CommonPrefixes>, as the service sends it
CommonPrefix ==
    <<EvStart("CommonPrefixes")>> \o Elem("Prefix", txt_p) \o <<EvEnd("CommonPrefixes")>>
\* the same with the tag spelled PreFix
CommonPreFix ==
    <<EvStart("CommonPrefixes")>> \o Elem("PreFix", txt_p) \o <<EvEnd("CommonPrefixes")>>
\* <Contents> that is never closed
OpenContents == <<EvStart("Contents")>>
\* <Key> that is never closed
OpenKey == <<EvStart("Key")>>
\* </Contents> that closes nothing
StrayEnd == <<EvEnd("Contents")>>
\* <Name>bkt</Name>, a tag the decoder does not know
UnknownElem == Elem("Name", <<98, 107, 116>>)

\* <CommonPrefixes><Name>bkt</Name></CommonPrefixes>: a tag the decoder does
\* not know inside the container
UnknownInPrefixes ==
    <<EvStart("CommonPrefixes")>> \o UnknownElem \o <<EvEnd("CommonPrefixes")>>

DocItems ==
    {FullBlock, NoKeyBlock, StrayKey, TruncTrue, TruncFalse, TruncBad,
     NextToken, CommonPrefix, CommonPreFix, OpenContents, OpenKey, StrayEnd,
     UnknownElem, UnknownInPrefixes}

\* the largest number of pieces of a document
MaxItems == 2

RECURSIVE DocsOf(_)
DocsOf(n) ==
    IF n = 0 THEN {<<>>}
    ELSE LET shorter == DocsOf(n - 1)
         IN  shorter \cup {d \o i : d \in shorter, i \in DocItems}

Docs == DocsOf(MaxItems)

\* what the transport may answer to a listing call
ListResponses ==
    {NoResponse,
     [sent |-> TRUE, status |-> 200, headers |-> EmptyHeaderMap, body |-> <<>>, read |-> FALSE]}
    \cup {[sent |-> TRUE, status |-> st, headers |-> EmptyHeaderMap, body |-> d,
           read |-> TRUE] : st \in {200, 404}, d \in Docs}

\* ListOptions of the calls, with prefix "p", marker "t+/=", delimiter "/",
\* max_keys "2": nothing set, each field alone, marker and max_keys, all four
ListOptionsSet ==
    {o \in [prefix : {<<>>, <<112>>}, marker : {<<>>, txt_token},
            delimiter : {<<>>, <<47>>}, max_keys : {<<>>, txt_2}] :
        LET n == Cardinality({f \in {"prefix", "marker", "delimiter", "max_keys"} : o[f] /= <<>>})
        IN  n \in {0, 1, 4} \/ (n = 2 /\ o.marker /= <<>> /\ o.max_keys /= <<>>)}

-----------------------------------------------------------------------------
(* Pagination: a service that holds stored_keys and honours max-keys and   *)
(* continuation-token, and a caller that pages through it.                 *)

\* the largest number of keys the service holds
NumKeys == 5

\* the i-th key of the service: "k1", "k2", ...
KeyName(i) == <<107, 48 + i>>

RECURSIVE SplitOn(_, _, _)
\* the pieces of s between the bytes sep; cur is the piece being read
SplitOn(s, sep, cur) ==
    IF s = <<>> THEN <<cur>>
    ELSE IF Head(s) = sep THEN <<cur>> \o SplitOn(Tail(s), sep, <<>>)
    ELSE SplitOn(Tail(s), sep, Append(cur, Head(s)))

\* the value of the query parameter `name` of a query string, empty without it
QueryValue(query, name) ==
    LET parts == SplitOn(query, 38, <<>>)
        hits == {i \in 1..Len(parts) : StartsWith(parts[i], name \o <<61>>)}
    IN  IF hits = {} THEN <<>>
        ELSE DropPrefix(parts[CHOOSE i \in hits : \A j \in hits : i <= j], name \o <<61>>)

RECURSIVE ParseDecimal(_)
ParseDecimal(s) ==
    IF s = <<>> THEN 0 ELSE 10 * ParseDecimal(SubSeq(s, 1, Len(s) - 1)) + (s[Len(s)] - 48)

\* the position after which a listing continues for a continuation token:
\* the token is the last key of the page before
TokenPosition(token) ==
    IF token = <<>> THEN 0
    ELSE CHOOSE i \in 0..Len(stored_keys) :
            \/ i > 0 /\ stored_keys[i] = token
            \/ i = 0 /\ \A j \in 1..Len(stored_keys) : stored_keys[j] /= token

\* <Contents> of one key, as the service writes it
ServiceBlock(key) ==
    ContentsBlock(Elem("Key", key) \o Elem("LastModified", txt_t) \o Elem("ETag", txt_e)
                  \o Elem("Size", txt_1) \o Elem("StorageClass", txt_z))

RECURSIVE ServiceBlocks(_)
ServiceBlocks(keys) ==
    IF keys = <<>> THEN <<>> ELSE ServiceBlock(Head(keys)) \o ServiceBlocks(Tail(keys))

\* the answer of the service to a list-type=2 request: at most max-keys keys
\* after the continuation token, IsTruncated, and a NextContinuationToken when
\* keys remain
ServiceAnswer(req) ==
    LET query == url_query(req.url)
        token == QueryValue(query, str_continuation_token)
        asked == QueryValue(query, str_max_keys)
        max_keys == IF asked = <<>> THEN 1000 ELSE ParseDecimal(asked)
        from == TokenPosition(token)
        to == Min2(from + max_keys, Len(stored_keys))
        page == SubSeq(stored_keys, from + 1, to)
        truncated == to < Len(stored_keys)
        doc == <<EvDecl, EvStart("ListBucketResult")>>
               \o Elem("Name", oss.bucket)
               \o <<EvStart("Prefix"), EvEnd("Prefix")>>
               \o Elem("MaxKeys", Decimal(max_keys))
               \o Elem("IsTruncated", IF truncated THEN str_true ELSE str_false)
               \o (IF truncated THEN Elem("NextContinuationToken", page[Len(page)])
                   ELSE <<>>)
               \o ServiceBlocks(page)
               \o Elem("KeyCount", Decimal(Len(page)))
               \o <<EvEnd("ListBucketResult")>>
    IN  [sent |-> TRUE, status |-> 200, headers |-> EmptyHeaderMap, body |-> doc,
         read |-> TRUE]

\* max_keys the paging caller asks for: "1", "2", "5"
PageSizes == {<<49>>, <<50>>, <<53>>}

\* the caller asks for the next page: list_details with the marker of the
\* page before and max_keys mk
PageSend(mk) ==
    /\ phase = "idle"
    /\ pager.state = "run"
    /\ Len(pager.asked) <= Len(stored_keys)
    /\ LET opts == [prefix |-> <<>>, marker |-> pager.marker, delimiter |-> <<>>,
                    max_keys |-> mk]
       IN  /\ sent' = <<list_request(Some(opts))>>
           /\ call' = [op |-> "list_details", opts |-> Some(opts)]
    /\ pager' = [pager EXCEPT !.asked = Append(@, ParseDecimal(mk))]
    /\ phase' = "await"
    /\ UNCHANGED <<oss, resp, result, stored_keys>>

RECURSIVE KeysOf(_)
KeysOf(objects) ==
    IF objects = <<>> THEN <<>> ELSE <<Head(objects).key>> \o KeysOf(Tail(objects))

\* the service answers, list_details returns, and the caller takes the page:
\* it goes on from next_marker while is_truncated is true
PageRecv ==
    /\ phase = "await"
    /\ pager.state = "run"
    /\ LET rsp == ServiceAnswer(sent[1])
           r == list_details_response(rsp)
       IN  /\ resp' = rsp
           /\ result' = r
           /\ pager' = IF r.kind /= "Ok" THEN [pager EXCEPT !.state = "failed"]
                       ELSE [pager EXCEPT
                               !.state = IF r.value.is_truncated THEN "run" ELSE "done",
                               !.marker = r.value.next_marker,
                               !.collected = @ \o KeysOf(r.value.objects),
                               !.sizes = Append(@, Len(r.value.objects))]
    /\ phase' = "idle"
    /\ UNCHANGED <<oss, call, sent, stored_keys>>

\* a client, a service that holds up to NumKeys keys, and a caller about to page
PagInit ==
    /\ oss = [key_id |-> <<105, 100>>,
              key_secret |-> <<115, 101, 99, 114, 101, 116>>,
              endpoint |-> <<104, 116, 116, 112, 115, 58, 47, 47, 101, 46, 99, 111, 109>>,
              bucket |-> <<98>>]
    /\ phase = "idle"
    /\ call = NoCall
    /\ sent = <<>>
    /\ resp = NoResponse
    /\ result = NoResult
    /\ stored_keys \in {[i \in 1..n |-> KeyName(i)] : n \in 0..NumKeys}
    /\ pager = [PagerOff EXCEPT !.state = "run"]

PagNext ==
    \/ \E mk \in PageSizes : PageSend(mk)
    \/ PageRecv

\* one turn of the paging loop as phase shows it: the call in flight returns,
\* or the caller, still paging, issues the next call.  Every step of PagNext is
\* such a turn, and a turn is possible exactly when a step of PagNext is
PagTurn ==
    /\ pager.state = "run"
    /\ \/ phase = "await" /\ phase' = "idle"
       \/ phase = "idle" /\ Len(pager.asked) <= Len(stored_keys) /\ phase' = "await"

\* the caller's loop and the service's answers go on as long as they can: the
\* calls are blocking, so a turn that stays possible is taken
PagSpec == PagInit /\ [][PagNext]_vars /\ WF_phase(PagTurn)

-----------------------------------------------------------------------------
\* OSS::set_bucket(bucket): between two calls the client is pointed at another
\* bucket; every later request is addressed to it and signed for it
set_bucket(bucket) ==
    /\ phase = "idle"
    /\ oss' = [oss EXCEPT !.bucket = bucket]
    /\ UNCHANGED <<phase, call, sent, resp, result, stored_keys, pager>>

\* the caller drops the result of the call; the client is ready for the next
Return ==
    /\ phase = "done"
    /\ phase' = "idle"
    /\ call' = NoCall
    /\ sent' = <<>>
    /\ resp' = NoResponse
    /\ result' = NoResult
    /\ UNCHANGED <<stored_keys, pager, oss>>

Next ==
    \/ HeadSend
    \/ \E rsp \in HeadResponses : HeadRecv(rsp)
    \/ DelSend
    \/ \E rsp \in StatusResponses : DelRecv(rsp)
    \/ \E object_names \in NameLists(MaxNames) : DelMultiSend(object_names)
    \/ \E rsp \in StatusResponses : DelMultiRecv(rsp)
    \/ \E op \in {"get", "get_as_buffer"}, params \in {None} \cup {Some(m) : m \in ParamMaps},
          meta_keys \in MetaKeyLists : GetSend(op, params, meta_keys)
    \/ \E rsp \in GetResponses : GetRecv(rsp)
    \/ \E meta \in {None} \cup {Some(m) : m \in MetaMaps},
          headers \in {None} \cup {Some(m) : m \in PutHeaderMaps},
          params \in {None} \cup {Some(m) : m \in PutParamMaps} :
            PutSend(meta, headers, params)
    \/ PutSendNone
    \/ \E rsp \in StatusResponses : PutRecv(rsp)
    \/ \E opts \in {None} \cup {Some(o) : o \in ListOptionsSet} : ListSend("list_details", opts)
    \/ \E opts \in {None, Some([prefix |-> <<112>>, marker |-> <<>>, delimiter |-> <<>>,
                                  max_keys |-> <<>>])} : ListSend("list_objects", opts)
    \/ \E rsp \in ListResponses : ListRecv(rsp)
    \/ Return
    \/ \E bucket \in {<<98>>, <<99>>} : set_bucket(bucket)

Spec == Init /\ [][Next]_vars


-----------------------------------------------------------------------------
(* Properties.                                                             *)

\* the request of the call in progress or just returned
TheRequest == sent[1]

\* a call of get, get_as_buffer or put that passed a query-parameter map
HasParams ==
    /\ phase \in {"await", "done"}
    /\ call.op \in {"get", "get_as_buffer", "put"}
    /\ call.params.some

RECURSIVE BytesBefore(_, _)
\* byte-wise lexicographic order, by comparing the first bytes
BytesBefore(a, b) ==
    IF b = <<>> THEN FALSE
    ELSE IF a = <<>> THEN TRUE
    ELSE IF Head(a) /= Head(b) THEN Head(a) < Head(b)
    ELSE BytesBefore(Tail(a), Tail(b))

\* `name=value`, or `name` alone without a value
Rendered(params, k) == IF params[k].some THEN k \o <<61>> \o params[k].v ELSE k

RECURSIVE JoinSmallestFirst(_, _)
JoinSmallestFirst(params, names) ==
    IF names = {} THEN <<>>
    ELSE LET k == CHOOSE x \in names : \A y \in names \ {x} : BytesBefore(x, y)
             rest == JoinSmallestFirst(params, names \ {k})
         IN  IF rest = <<>> THEN Rendered(params, k)
             ELSE Rendered(params, k) \o <<38>> \o rest

\* the reference string of a query-parameter map
ReferenceResource(params) ==
    JoinSmallestFirst(params, {k \in DOMAIN params : k \in Range(RESOURCES)})

\* C1: for every query-parameter map and every iteration order of it,
\* get_resources_str (get, get_as_buffer) and get_params_str (put) return the
\* reference string: the allow-listed entries, sorted byte-wise by name,
\* rendered `name=value` or `name`, joined by `&`
C1_CanonicalResource ==
    HasParams => TheRequest.auth.resource = ReferenceResource(call.params.v)

\* C1 witness: a get whose map holds two allow-listed names, one with and one
\* without a value, and a name outside the allow-list
C1_Witness ==
    /\ HasParams
    /\ call.op = "get"
    /\ DOMAIN call.params.v = {<<97, 99, 108>>, <<117, 112, 108, 111, 97, 100, 115>>,
                               <<102, 111, 111>>}
    /\ call.params.v[<<97, 99, 108>>] = Some(<<49>>)
    /\ call.params.v[<<117, 112, 108, 111, 97, 100, 115>>] = None
    /\ TheRequest.auth.resource = <<97, 99, 108, 61, 49, 38, 117, 112, 108, 111, 97, 100, 115>>
                                                          \* "acl=1&uploads"

\* C2: for get, get_as_buffer and put the query string of the URL handed to
\* the transport holds every caller-supplied query parameter, also those
\* outside the allow-list, and the canonical resource handed to the signer
\* holds the allow-listed ones only
C2_UrlCarriesAllParams ==
    HasParams =>
        /\ \A k \in DOMAIN call.params.v :
              StrContains(url_query(TheRequest.url), Rendered(call.params.v, k))
        /\ TheRequest.auth.resource = ReferenceResource(call.params.v)

\* the error variant each operation owns
OwnError(op) ==
    CASE op \in {"get", "get_as_buffer"} -> "GetError"
      [] op = "put" -> "PutError"
      [] op = "del" -> "DeleteError"
      [] op = "head" -> "HeadError"

\* C3: for get, put, del and head a 2xx status yields the typed success
\* result, any other status the error variant of that operation with the
\* status code in its message, and nothing else
C3_TypedOutcome ==
    (/\ phase = "done"
     /\ call.op \in {"get", "get_as_buffer", "put", "del", "head"}
     /\ resp.sent)
    => IF is_success(resp.status)
       THEN result.kind = "Ok"
       ELSE /\ result.kind = "Err"
            /\ result.err = "Object"
            /\ result.obj = OwnError(call.op)
            /\ StrContains(result.msg, Decimal(resp.status))


\* a listing call the transport has answered with a body
ListAnswered ==
    /\ phase = "done"
    /\ call.op \in {"list_objects", "list_details"}
    /\ resp.sent
    /\ resp.read

\* C4: a listing call answered with a non-2xx status returns Err, never an Ok
\* value built from the body of the error response
C4_ListProtocolFailure ==
    (ListAnswered /\ ~is_success(resp.status)) => result.kind = "Err"

RECURSIVE Balanced(_, _)
\* every end tag closes the innermost open element, and none stays open
Balanced(doc, opened) ==
    IF doc = <<>> THEN opened = <<>>
    ELSE LET e == Head(doc)
         IN  CASE e.t = "Start" -> Balanced(Tail(doc), <<e.name>> \o opened)
               [] e.t = "End" -> /\ opened /= <<>>
                                 /\ Head(opened) = e.name
                                 /\ Balanced(Tail(doc), Tail(opened))
               [] OTHER -> Balanced(Tail(doc), opened)

\* the positions of the Contents start tags of a document
BlockStarts(doc) == {i \in 1..Len(doc) : doc[i] = EvStart("Contents")}

\* the position of the end tag of the block that starts at i
BlockEnd(doc, i) ==
    CHOOSE j \in (i + 1)..Len(doc) :
        /\ doc[j] = EvEnd("Contents")
        /\ \A k \in (i + 1)..(j - 1) : doc[k] /= EvEnd("Contents")

\* the text of the tag `name` of the block from i to j, empty without the tag
FieldOf(doc, i, j, name) ==
    IF \E k \in (i + 1)..(j - 2) : doc[k] = EvStart(name) /\ doc[k + 1].t = "Text"
    THEN doc[(CHOOSE k \in (i + 1)..(j - 2) :
                 doc[k] = EvStart(name) /\ doc[k + 1].t = "Text") + 1].text
    ELSE <<>>

\* the entry a block describes
EntryOf(doc, i) ==
    LET j == BlockEnd(doc, i)
    IN  [key |-> FieldOf(doc, i, j, "Key"),
         last_modified |-> FieldOf(doc, i, j, "LastModified"),
         e_tag |-> FieldOf(doc, i, j, "ETag"),
         size |-> FieldOf(doc, i, j, "Size")]

RECURSIVE EntriesFrom(_, _)
\* the entries of the blocks that start at or after position i, in document order
EntriesFrom(doc, i) ==
    IF i > Len(doc) THEN <<>>
    ELSE IF doc[i] = EvStart("Contents")
         THEN <<EntryOf(doc, i)>> \o EntriesFrom(doc, i + 1)
         ELSE EntriesFrom(doc, i + 1)

\* C5: list_details on a listing document with N Contents blocks returns N
\* entries in document order, each field the text of that tag in the same
\* block, and empty when the block has no such tag
C5_EntriesMatchBlocks ==
    (/\ ListAnswered
     /\ call.op = "list_details"
     /\ Balanced(resp.body, <<>>)
     /\ result.kind = "Ok")
    => result.value.objects = EntriesFrom(resp.body, 1)

RECURSIVE SumTo(_, _)
\* the sum of the first n entries of a sequence of numbers
SumTo(seq, n) == IF n = 0 THEN 0 ELSE SumTo(seq, n - 1) + seq[n]

\* what holds of the paging caller at every moment: no page fails; the keys
\* collected are the first keys of the service, in order, each once; a page
\* holds as many entries as were asked for, or all that remain; a page is
\* truncated, and carries a marker, exactly while keys remain; and a caller
\* that has stopped holds the whole key list
PagSafe ==
    /\ pager.state /= "failed"
    /\ Len(pager.collected) <= Len(stored_keys)
    /\ pager.collected = SubSeq(stored_keys, 1, Len(pager.collected))
    /\ \A i \in 1..Len(pager.sizes) :
          pager.sizes[i] = Min2(pager.asked[i], Len(stored_keys) - SumTo(pager.sizes, i - 1))
    /\ (phase = "idle" /\ pager.sizes /= <<>>) =>
          /\ result.kind = "Ok"
          /\ result.value.is_truncated <=> Len(pager.collected) < Len(stored_keys)
          /\ result.value.next_marker /= <<>> <=> result.value.is_truncated
    /\ pager.state = "done" => pager.collected = stored_keys

\* C6: a caller that pages with list_details, from the marker of the page
\* before, until is_truncated is false, stops, and the pages add up to the key
\* list of the service, every key once
C6_Pagination == [](PagSafe) /\ <>(pager.state = "done")

\* C6 witness: five keys, a first page of two with max_keys 2, then the other
\* three with max_keys 5
C6_Witness ==
    /\ Len(stored_keys) = 5
    /\ pager.state = "done"
    /\ pager.asked = <<2, 5>>
    /\ pager.sizes = <<2, 3>>
    /\ pager.collected = stored_keys
    /\ ~result.value.is_truncated
    /\ result.value.next_marker = <<>>
    /\ call.opts.v.marker = KeyName(2)

\* the ListOptions a listing call works with
EffectiveOpts == IF call.opts.some THEN call.opts.v ELSE ListOptions_default

\* `&name=value` for a value that is not empty
QueryPart(name, value) ==
    IF Len(value) = 0 THEN <<>> ELSE <<38>> \o name \o <<61>> \o value

\* C7: the query of a listing request is `list-type=2` followed by
\* `&name=value` for exactly the non-empty options among continuation-token
\* (the marker), delimiter, max-keys and prefix, and the canonical resource is
\* `continuation-token=<marker>` for a marker that is not empty and empty
\* otherwise
C7_ListParams ==
    (phase \in {"await", "done"} /\ call.op \in {"list_objects", "list_details"})
    => /\ url_query(TheRequest.url) =
             <<108, 105, 115, 116, 45, 116, 121, 112, 101, 61, 50>>
             \o QueryPart(str_continuation_token, EffectiveOpts.marker)
             \o QueryPart(str_delimiter, EffectiveOpts.delimiter)
             \o QueryPart(str_max_keys, EffectiveOpts.max_keys)
             \o QueryPart(str_prefix, EffectiveOpts.prefix)
       /\ TheRequest.auth.resource =
             (IF Len(EffectiveOpts.marker) = 0 THEN <<>>
              ELSE str_continuation_token \o <<61>> \o EffectiveOpts.marker)

\* C7 witness: list_details with all four options set
C7_Witness ==
    /\ phase = "await"
    /\ call.op = "list_details"
    /\ call.opts = Some([prefix |-> <<112>>, marker |-> txt_token, delimiter |-> <<47>>,
                         max_keys |-> txt_2])
    /\ StrContains(TheRequest.url, str_list_type_2 \o str_amp \o str_continuation_token
                                     \o str_eq \o txt_token \o str_amp \o str_delimiter)
    /\ TheRequest.auth.resource = str_continuation_token_eq \o txt_token

\* a metadata map whose keys stay distinct in lower case
NoCaseClash(m) == \A a, b \in DOMAIN m : LowerStr(a) = LowerStr(b) => a = b

\* a metadata map with its keys in lower case
LowerKeys(m) ==
    [k \in {LowerStr(x) : x \in DOMAIN m} |->
        m[CHOOSE x \in DOMAIN m : LowerStr(x) = k]]

\* the headers of a header set that carry the metadata prefix
MetaHeaders(h) ==
    [n \in {x \in DOMAIN h : StartsWith(x, OSS_META_PREFIX)} |-> h[n]]

\* C8: when the headers head receives are the encoding of a metadata map by
\* to_meta_headers, head returns that map, with its keys in lower case
C8_MetaRoundTrip ==
    (phase = "done" /\ call.op = "head" /\ resp.sent /\ is_success(resp.status))
    => \A m \in MetaMaps :
          \A o \in Orders(DOMAIN m) :
             (/\ NoCaseClash(m)
              /\ to_meta_headers(m, o).ok
              /\ MetaHeaders(resp.headers) = to_meta_headers(m, o).headers)
             => result = Ok(LowerKeys(m))

\* a ListDetailsResponse that list_details has returned
DetailsReturned ==
    /\ ListAnswered
    /\ call.op = "list_details"
    /\ result.kind = "Ok"

\* C9: every ListDetailsResponse with is_truncated false has an empty
\* next_marker, whatever the document
C9_NotTruncatedNoMarker ==
    DetailsReturned => (~result.value.is_truncated => result.value.next_marker = <<>>)

\* C10: decoding never panics; a listing call answered with a body returns Ok
\* or a parse error, and Ok only for a document that ends with no element open
C10_DecodeNeverPanics ==
    ListAnswered
    => /\ result.kind \in {"Ok", "Err"}
       /\ result.kind = "Ok" => Balanced(resp.body, <<>>)

\* the tag names the decoder consumes; the nested prefix tag in the spelling of
\* the service and in that of the decoder
Vocabulary ==
    {"Contents", "Key", "LastModified", "ETag", "Size", "IsTruncated",
     "NextContinuationToken", "CommonPrefixes", "Prefix", "PreFix"}

RECURSIVE Strip(_, _)
\* a document without its elements named outside Vocabulary (with their text
\* and children); skip is the depth inside such an element
Strip(doc, skip) ==
    IF doc = <<>> THEN <<>>
    ELSE LET e == Head(doc)
         IN  IF skip > 0
             THEN Strip(Tail(doc), CASE e.t = "Start" -> skip + 1
                                     [] e.t = "End" -> skip - 1
                                     [] OTHER -> skip)
             ELSE IF e.t = "Start" /\ e.name \notin Vocabulary THEN Strip(Tail(doc), 1)
             ELSE IF e.t = "Empty" /\ e.name \notin Vocabulary THEN Strip(Tail(doc), 0)
             ELSE <<e>> \o Strip(Tail(doc), 0)

\* C11: tags outside the consumed vocabulary are ignored: list_details on a
\* well-formed document returns what it returns on the same document without
\* those tags, at top level, inside Contents and inside CommonPrefixes
C11_UnknownTagsIgnored ==
    (ListAnswered /\ call.op = "list_details" /\ Balanced(resp.body, <<>>))
    => result = list_details_response([resp EXCEPT !.body = Strip(resp.body, 0)])

\* a map of user metadata with a key or value that is no header name or value
BadMeta(meta) ==
    \E k \in DOMAIN meta :
        ~HeaderName_from_bytes(OSS_META_PREFIX \o k).ok \/ ~HeaderValue_from_str(meta[k])

\* a map of extra headers with a name or value that is no header name or value
BadHeaders(headers) ==
    \E k \in DOMAIN headers :
        ~HeaderName_from_bytes(k).ok \/ ~HeaderValue_from_str(headers[k])

\* C12: a put whose metadata or extra headers cannot be encoded as transport
\* headers sends no request and returns an error
C12_EncodingFailureFatal ==
    (/\ call.op = "put"
     /\ \/ call.meta.some /\ BadMeta(call.meta.v)
        \/ call.headers.some /\ BadHeaders(call.headers.v))
    => /\ sent = <<>>
       /\ phase = "done" => result.kind = "Err"

\* C13: get answered 2xx with a body that is not valid UTF-8 returns the
\* String (FromUtf8) error to its caller
C13_Utf8FailureReturned ==
    (/\ phase = "done"
     /\ call.op = "get"
     /\ resp.sent /\ resp.read /\ is_success(resp.status)
     /\ ~IsUtf8(resp.body))
    => result = Err("String")

\* a get or get_as_buffer that returned Ok
GetReturnedOk ==
    /\ phase = "done"
    /\ call.op \in {"get", "get_as_buffer"}
    /\ result.kind = "Ok"

\* the response header that carries the metadata key k
MetaHeaderOf(k) == LowerStr(OSS_META_PREFIX \o k)

\* C14: the meta map of a successful get / get_as_buffer has an entry for a
\* requested key k exactly when the response carries the header x-oss-meta-k;
\* the entry is keyed by k as requested and holds the value of that header,
\* and no key that was not requested is in the map
C14_MetaOfRequestedKeys ==
    GetReturnedOk
    => LET meta == result.value.meta
           requested == Range(call.meta_keys)
       IN  /\ DOMAIN meta \subseteq requested
           /\ \A k \in requested :
                 /\ k \in DOMAIN meta <=> MetaHeaderOf(k) \in DOMAIN resp.headers
                 /\ k \in DOMAIN meta => meta[k] = resp.headers[MetaHeaderOf(k)]

\* C14 witness: keys "K" and "x-oss-meta-k" requested of a response with the
\* header x-oss-meta-k: v; the map is {"K": "v"}
C14_Witness ==
    /\ GetReturnedOk
    /\ call.op = "get_as_buffer"
    /\ Len(call.meta_keys) = 2
    /\ hdr_meta_k \in DOMAIN resp.headers
    /\ DOMAIN result.value.meta = {<<75>>}
    /\ result.value.meta[<<75>>] = <<118>>

RECURSIVE WithoutContainers(_, _)
\* a document without its CommonPrefixes containers; inside tells whether
\* the scan is within one
WithoutContainers(doc, inside) ==
    IF doc = <<>> THEN <<>>
    ELSE LET e == Head(doc)
         IN  IF inside THEN WithoutContainers(Tail(doc), e /= EvEnd("CommonPrefixes"))
             ELSE IF e = EvStart("CommonPrefixes") THEN WithoutContainers(Tail(doc), TRUE)
             ELSE <<e>> \o WithoutContainers(Tail(doc), FALSE)

RECURSIVE PrefixTexts(_, _)
\* the texts of the prefix tags nested in the CommonPrefixes containers of a
\* document, in document order
PrefixTexts(doc, inside) ==
    IF doc = <<>> THEN <<>>
    ELSE LET e == Head(doc)
         IN  IF ~inside THEN PrefixTexts(Tail(doc), e = EvStart("CommonPrefixes"))
             ELSE IF e = EvEnd("CommonPrefixes") THEN PrefixTexts(Tail(doc), FALSE)
             ELSE IF e.t = "Start" /\ e.name \in {"Prefix", "PreFix"} /\ Len(doc) >= 2
                     /\ doc[2].t = "Text"
                  THEN <<doc[2].text>> \o PrefixTexts(Tail(doc), TRUE)
             ELSE PrefixTexts(Tail(doc), TRUE)

\* C15: list_details on a well-formed document of known tags returns what it
\* returns on the document without its CommonPrefixes containers, with the
\* nested prefix texts of the containers, in document order, as prefixes
C15_CommonPrefixesCollected ==
    (/\ ListAnswered
     /\ call.op = "list_details"
     /\ Balanced(resp.body, <<>>)
     /\ Strip(resp.body, 0) = resp.body)
    => LET rest == list_details_response(
                       [resp EXCEPT !.body = WithoutContainers(resp.body, FALSE)])
       IN  IF rest.kind = "Ok"
           THEN result = Ok([rest.value EXCEPT !.prefixes = PrefixTexts(resp.body, FALSE)])
           ELSE result = rest

\* the operations that are one round trip
SingleRoundTrip ==
    {"get", "get_as_buffer", "put", "del", "head", "list_objects", "list_details"}

\* C16: a call of get_as_buffer, put, del, head, list_objects or list_details
\* has issued exactly one request, while it waits and after it has returned
\* with whatever outcome, and that request carries Date and Authorization
C16_SingleRequest ==
    (call.op \in SingleRoundTrip /\ phase \in {"await", "done"})
    => /\ Len(sent) = 1
       /\ str_date \in DOMAIN sent[1].headers
       /\ str_authorization \in DOMAIN sent[1].headers

\* C16 witness: a put answered with a non-2xx status has returned PutError
\* after its one request
C16_Witness ==
    /\ phase = "done"
    /\ call.op = "put"
    /\ resp.sent /\ ~is_success(resp.status)
    /\ result.kind = "Err" /\ result.obj = "PutError"
    /\ Len(sent) = 1

\* an answer of the transport that makes a del succeed
DelSucceeded(rsp) == rsp.sent /\ is_success(rsp.status)

\* C17: del_multi deletes its names one at a time in iteration order: the
\* j-th request is the delete of the j-th name, every answered del but the
\* last has succeeded, and del_multi returns at the first failure with the
\* error of that del and without a request for a later name, and returns Ok
\* only after the del of every name has succeeded
C17_DelMultiStopsAtFailure ==
    call.op = "del_multi"
    => LET names == call.object_names
           answers == call.answers
       IN  /\ Len(sent) <= Len(names)
           /\ \A j \in 1..Len(sent) :
                 sent[j].verb = "DELETE" /\ sent[j].auth.object = names[j]
           /\ \A j \in 1..(Len(answers) - 1) : DelSucceeded(answers[j])
           /\ phase = "await" =>
                 /\ Len(sent) = Len(answers) + 1
                 /\ \A j \in 1..Len(answers) : DelSucceeded(answers[j])
           /\ phase = "done" =>
                 /\ Len(sent) = Len(answers)
                 /\ result.kind \in {"Ok", "Err"}
                 /\ result.kind = "Ok" <=>
                       /\ Len(sent) = Len(names)
                       /\ \A j \in 1..Len(answers) : DelSucceeded(answers[j])
                 /\ result.kind = "Err" =>
                       LET last == answers[Len(answers)]
                       IN  /\ ~DelSucceeded(last)
                           /\ ~last.sent => result.err = "Reqwest"
                           /\ last.sent =>
                                 /\ result.obj = "DeleteError"
                                 /\ result.msg = str_delete_msg \o status_display(last.status)

\* C17 witness: three names, the first del succeeds, the second is answered
\* 404: del_multi has returned DeleteError and the third name was never asked
C17_Witness ==
    /\ call.op = "del_multi"
    /\ phase = "done"
    /\ Len(call.object_names) = 3
    /\ Len(call.answers) = 2
    /\ DelSucceeded(call.answers[1])
    /\ call.answers[2].sent /\ call.answers[2].status = 404
    /\ Len(sent) = 2
    /\ result.kind = "Err" /\ result.obj = "DeleteError"

=============================================================================
